---- MODULE Spec2Model ----
(***************************************************************************)
(* ContentBlast: the account ledger (data/users.json), the session store   *)
(* (data/sessions.json) and the HTTP handlers that compose them.           *)
(*                                                                         *)
(* Every AuthSystem method is a sequence of steps, one per access to a     *)
(* store file: a whole-file load, the in-memory change that follows it, and *)
(* a whole-file save.  A worker process runs one request at a time; two    *)
(* workers interleave at the granularity of these steps.  A clock read     *)
(* (datetime.now()) is taken together with the file access it follows.     *)
(***************************************************************************)
EXTENDS Integers, Sequences, FiniteSets, TLC

VARIABLES
    users_file,      \* contents of data/users.json: normalised email -> user record
    sessions_file,   \* contents of data/sessions.json: token -> session record
    now,             \* the wall clock, in days
    next_token,      \* the next value secrets.token_urlsafe will return
    loc,             \* per worker: program counter, arguments and local variables
    ev,              \* the step just taken: worker, method, value returned, HTTP response
    hist             \* history kept for the properties (never read by the program)

vars == <<users_file, sessions_file, now, next_token, loc, ev, hist>>

----------------------------------------------------------------------------
(* Bounds of the model *)

\* The clock stops advancing at MaxTime.
MaxTime == 9
\* At most MaxTokens session tokens are ever generated.
MaxTokens == 2
\* use_repurpose is not called once a counter has reached MaxUsed.
MaxUsed == 7

\* The worker processes.
Procs == {1, 2}

----------------------------------------------------------------------------
(* Text *)

\* str.lower() on one character.
LowerChar(c) ==
    CASE c = "A" -> "a"
      [] c = "B" -> "b"
      [] c = "C" -> "c"
      [] OTHER -> c

\* str.lower()
Lower(s) == [i \in 1..Len(s) |-> LowerChar(s[i])]

Whitespace == {" "}

\* str.strip(): drop leading and trailing whitespace.
RECURSIVE LStrip(_)
LStrip(s) == IF s # <<>> /\ Head(s) \in Whitespace THEN LStrip(Tail(s)) ELSE s

RECURSIVE RStrip(_)
RStrip(s) ==
    IF s # <<>> /\ s[Len(s)] \in Whitespace
    THEN RStrip(SubSeq(s, 1, Len(s) - 1))
    ELSE s

Strip(s) == RStrip(LStrip(s))

\* mutant: the lower-casing is left out
Normalize_NoLower(email) == Strip(email)

\* email.lower().strip()
Normalize(email) == Strip(Lower(email))

\* "@" in email
HasAt(s) == \E i \in 1..Len(s) : s[i] = "@"

\* email.split("@")[0]
RECURSIVE BeforeAt(_)
BeforeAt(s) ==
    IF s = <<>> \/ Head(s) = "@" THEN <<>> ELSE <<Head(s)>> \o BeforeAt(Tail(s))

Salt == <<"contentblast_salt_2024">>

\* hash_password: SHA-256 of password + salt, taken as injective.
hash_password(password) == [sha256 |-> password \o Salt]

----------------------------------------------------------------------------
(* Program constants *)

FREE_REPURPOSES == 5
STARTER_REPURPOSES == 50
PRO_REPURPOSES == 200
\* the sentinel of the unlimited plan
UNLIMITED == -1
\* timedelta(days=7)
SessionTTL == 7
\* the display value of an unlimited remaining count
RemainingSentinel == 999
MinPasswordLen == 6

\* the limits table of upgrade_plan
PlanIds == {"free", "starter", "pro", "unlimited"}

limits(plan) ==
    CASE plan = "free" -> FREE_REPURPOSES
      [] plan = "starter" -> STARTER_REPURPOSES
      [] plan = "pro" -> PRO_REPURPOSES
      [] plan = "unlimited" -> UNLIMITED

\* Python's None as a returned value (a stored None is the empty tuple)
None == [none |-> TRUE]
IsNone(v) == "none" \in DOMAIN v


----------------------------------------------------------------------------
(* Stores and records *)

\* json.dump({}, f): an empty store
EmptyStore == <<>>

\* d[k] = v on a dict
Put(d, k, v) == [x \in DOMAIN d \cup {k} |-> IF x = k THEN v ELSE d[x]]

\* del d[k]
Del(d, k) == [x \in DOMAIN d \ {k} |-> d[x]]

\* the record register() stores (auth.py 72-81)
NewUser(email, password, name, t) ==
    [email |-> email,
     password |-> hash_password(password),
     name |-> IF name # <<>> THEN name ELSE BeforeAt(email),
     plan |-> "free",
     repurposes_used |-> 0,
     repurposes_limit |-> FREE_REPURPOSES,
     created_at |-> t,
     last_login |-> <<>>]

\* the record login() stores (auth.py 106-110)
NewSession(email, t) ==
    [email |-> email, created_at |-> t, expires_at |-> t + SessionTTL]

\* mutant: the limit test lets one call too many through
LimitReached_OffByOne(user) ==
    user.repurposes_limit > 0 /\ user.repurposes_used > user.repurposes_limit

\* mutant: the limit test takes the sentinel -1 for a cap
LimitReached_NoSentinel(user) == user.repurposes_used >= user.repurposes_limit

\* the limit test of use_repurpose (auth.py 171)
LimitReached(user) ==
    user.repurposes_limit > 0 /\ user.repurposes_used >= user.repurposes_limit

\* the admission test of the dispatcher (main.py 173)
AdmissionDenied(user) ==
    user.repurposes_limit > 0 /\ user.repurposes_used >= user.repurposes_limit

\* repurposes_remaining (auth.py 157 and 180)
Remaining(user) ==
    IF user.repurposes_limit > 0
    THEN user.repurposes_limit - user.repurposes_used
    ELSE RemainingSentinel

\* the expiry test of get_user_from_session (auth.py 139)
Expired(session, t) == session.expires_at < t

\* the user dict login() returns (auth.py 116-122)
LoginUser(email, user) ==
    [email |-> email,
     name |-> user.name,
     plan |-> user.plan,
     repurposes_used |-> user.repurposes_used,
     repurposes_limit |-> user.repurposes_limit]

\* the user dict get_user_from_session() returns (auth.py 151-158)
SessionUser(email, user) ==
    [email |-> email,
     name |-> user.name,
     plan |-> user.plan,
     repurposes_used |-> user.repurposes_used,
     repurposes_limit |-> user.repurposes_limit,
     repurposes_remaining |-> Remaining(user)]

Fail(msg) == [success |-> FALSE, error |-> msg]

----------------------------------------------------------------------------
(* Workers *)

NoContent == [len |-> 0, stripped |-> 0]

\* no Stripe notification
NoWebhook == [verdict |-> "", type |-> "", customer_email |-> <<>>, plan_id |-> ""]

\* a worker between requests
Idle ==
    [pc |-> "idle", handler |-> "none", email |-> <<>>, password |-> <<>>,
     name |-> <<>>, plan |-> "", token |-> 0, users |-> EmptyStore,
     sessions |-> EmptyStore, user |-> None, content |-> NoContent,
     webhook |-> NoWebhook]

\* a JSONResponse or an HTTPException, with the session cookie it sets (0: none)
Json(status, body, cookie) == [status |-> status, body |-> body, cookie |-> cookie]

NoResp == [status |-> 0, body |-> None, cookie |-> 0]

\* The step taken: by worker p, in method op called by handler h. done: op
\* returned, and ret is what it returned. resp: the HTTP response sent, if any.
Event(p, l, op, done, r, response) ==
    [p |-> p, handler |-> l.handler, op |-> op, done |-> done, ret |-> r,
     resp |-> response,
     arg |-> [email |-> l.email, password |-> l.password, token |-> l.token,
              plan |-> l.plan, webhook |-> l.webhook]]

NoEvent == Event(0, Idle, "none", FALSE, None, NoResp)

\* The method `op` goes on to its next step.
Goto(p, l, op) ==
    /\ loc' = [loc EXCEPT ![p] = l]
    /\ ev' = Event(p, l, op, FALSE, None, NoResp)

\* The request of worker p ends with an HTTP response.
Respond(p, l, op, r, response) ==
    /\ loc' = [loc EXCEPT ![p] = Idle]
    /\ ev' = Event(p, l, op, TRUE, r, response)

\* main.py 179-189: the content checks of repurpose_content; 0 when they pass
ContentStatus(content) ==
    IF content.len = 0 \/ content.stripped < 50 THEN 400
    ELSE IF content.len > 10000 THEN 400
    ELSE 0

\* The method `op` of worker p, whose locals are l, returns r: the handler that
\* called it goes on (main.py), or the worker is idle again.
Return(p, l, op, r) ==
    CASE l.handler = "api_register" /\ op = "register" ->
           \* main.py 97-113
           IF r.success
           THEN /\ loc' = [loc EXCEPT ![p] = [l EXCEPT !.pc = "login_load_users",
                                                       !.users = EmptyStore]]
                /\ ev' = Event(p, l, op, TRUE, r, NoResp)
           ELSE Respond(p, l, op, r, Json(200, r, 0))
      [] l.handler = "api_register" /\ op = "login" ->
           \* main.py 102-113: result is still register's result
           Respond(p, l, op, r,
                   IF r.success
                   THEN Json(200, [success |-> TRUE, redirect |-> "/app"], r.session_token)
                   ELSE Json(200, [success |-> TRUE,
                                   message |-> "Account created successfully"], 0))
      [] l.handler = "repurpose_content" /\ op = "get_user_from_session" ->
           \* main.py 169-189
           IF ~IsNone(r) /\ AdmissionDenied(r)
           THEN Respond(p, l, op, r, Json(403, None, 0))
           ELSE IF ContentStatus(l.content) # 0
           THEN Respond(p, l, op, r, Json(ContentStatus(l.content), None, 0))
           ELSE /\ loc' = [loc EXCEPT ![p] = [l EXCEPT !.pc = "repurpose_backend",
                                                       !.sessions = EmptyStore,
                                                       !.users = EmptyStore,
                                                       !.email = <<>>,
                                                       !.user = r]]
                /\ ev' = Event(p, l, op, TRUE, r, NoResp)
      [] l.handler = "repurpose_content" /\ op = "use_repurpose" ->
           \* main.py 200-204: usage.get("repurposes_remaining", 0)
           Respond(p, l, op, r,
                   Json(200, [success |-> TRUE,
                              repurposes_remaining |->
                                  IF "repurposes_remaining" \in DOMAIN r
                                  THEN r.repurposes_remaining ELSE 0], 0))
      [] OTHER ->
           Respond(p, l, op, r, NoResp)

----------------------------------------------------------------------------
(* AuthSystem.register *)

\* mutant: no test for an email already registered
register_error_NoDuplicate(users, email, password) ==
    IF email = <<>> \/ ~HasAt(email) THEN "Invalid email address"
    ELSE IF Len(password) < MinPasswordLen THEN "Password must be at least 6 characters"
    ELSE ""

\* auth.py 61-70: the error register() returns, "" when it goes on
register_error(users, email, password) ==
    IF email = <<>> \/ ~HasAt(email) THEN "Invalid email address"
    ELSE IF Len(password) < MinPasswordLen THEN "Password must be at least 6 characters"
    ELSE IF email \in DOMAIN users THEN "Email already registered"
    ELSE ""

\* auth.py 59-81: normalise, validate, load the users, add the record in memory
RegisterLoad(p, l) ==
    LET email == Normalize(l.email)
        err == register_error(users_file, email, l.password)
    IN  /\ UNCHANGED <<users_file, sessions_file, now, next_token>>
        /\ IF err # ""
           THEN Return(p, l, "register", Fail(err))
           ELSE Goto(p, [l EXCEPT !.pc = "register_save",
                                  !.users = Put(users_file, email,
                                                NewUser(email, l.password, l.name, now))],
                     "register")

\* auth.py 83-85: save_users(users)
RegisterSave(p) ==
    /\ loc[p].pc = "register_save"
    /\ users_file' = loc[p].users
    /\ UNCHANGED <<sessions_file, now, next_token>>
    /\ Return(p, loc[p], "register",
              [success |-> TRUE, message |-> "Account created successfully"])

----------------------------------------------------------------------------
(* AuthSystem.login *)

\* auth.py 93-97: whether the credentials are refused
login_refused(users, email, password) ==
    \/ email \notin DOMAIN users
    \/ users[email].password # hash_password(password)

\* mutant: a wrong password gets an error message of its own
LoginLoadUsers_TellsApart(p, l) ==
    LET email == Normalize(l.email)
    IN  /\ UNCHANGED <<users_file, sessions_file, now, next_token>>
        /\ IF email \notin DOMAIN users_file
           THEN Return(p, l, "login", Fail("Invalid email or password"))
           ELSE IF login_refused(users_file, email, l.password)
           THEN Return(p, l, "login", Fail("Wrong password"))
           ELSE Goto(p, [l EXCEPT !.pc = "login_save_users",
                                  !.users = [users_file EXCEPT
                                                ![email].last_login = <<now>>]],
                     "login")

\* auth.py 90-100: normalise, load the users, verify, set last_login in memory
LoginLoadUsers(p, l) ==
    LET email == Normalize(l.email)
    IN  /\ UNCHANGED <<users_file, sessions_file, now, next_token>>
        /\ IF login_refused(users_file, email, l.password)
           THEN Return(p, l, "login", Fail("Invalid email or password"))
           ELSE Goto(p, [l EXCEPT !.pc = "login_save_users",
                                  !.users = [users_file EXCEPT
                                                ![email].last_login = <<now>>]],
                     "login")

\* auth.py 101: save_users(users)
LoginSaveUsers(p) ==
    /\ loc[p].pc = "login_save_users"
    /\ users_file' = loc[p].users
    /\ UNCHANGED <<sessions_file, now, next_token>>
    /\ Goto(p, [loc[p] EXCEPT !.pc = "login_load_sessions"], "login")

\* mutant: a login drops the other sessions of the same user
LoginLoadSessions_SingleSession(p) ==
    /\ loc[p].pc = "login_load_sessions"
    /\ next_token' = next_token + 1
    /\ UNCHANGED <<users_file, sessions_file, now>>
    /\ LET email == Normalize(loc[p].email)
           others == [t \in {x \in DOMAIN sessions_file :
                                sessions_file[x].email # email} |-> sessions_file[t]]
       IN  Goto(p, [loc[p] EXCEPT !.pc = "login_save_sessions",
                                  !.token = next_token,
                                  !.sessions = Put(others, next_token,
                                                   NewSession(email, now))],
                "login")

\* auth.py 104-110: a fresh token, load the sessions, add the session in memory
LoginLoadSessions(p) ==
    /\ loc[p].pc = "login_load_sessions"
    /\ next_token' = next_token + 1
    /\ UNCHANGED <<users_file, sessions_file, now>>
    /\ Goto(p, [loc[p] EXCEPT !.pc = "login_save_sessions",
                              !.token = next_token,
                              !.sessions = Put(sessions_file, next_token,
                                               NewSession(Normalize(loc[p].email), now))],
            "login")

\* auth.py 111-123: save_sessions(sessions), return the token and the user
LoginSaveSessions(p) ==
    /\ loc[p].pc = "login_save_sessions"
    /\ sessions_file' = loc[p].sessions
    /\ UNCHANGED <<users_file, now, next_token>>
    /\ LET email == Normalize(loc[p].email)
       IN  Return(p, loc[p], "login",
                  [success |-> TRUE,
                   session_token |-> loc[p].token,
                   user |-> LoginUser(email, loc[p].users[email])])

----------------------------------------------------------------------------
(* AuthSystem.get_user_from_session *)

\* auth.py 128-140 (and main.py 39-40): load the sessions, look the token up
ResolveLoadSessions(p, l) ==
    /\ UNCHANGED <<users_file, sessions_file, now, next_token>>
    /\ IF l.token = 0 \/ l.token \notin DOMAIN sessions_file
       THEN Return(p, l, "get_user_from_session", None)
       ELSE IF Expired(sessions_file[l.token], now)
       THEN Goto(p, [l EXCEPT !.pc = "resolve_save_sessions",
                              !.sessions = Del(sessions_file, l.token)],
                 "get_user_from_session")
       ELSE Goto(p, [l EXCEPT !.pc = "resolve_load_users",
                              !.email = sessions_file[l.token].email],
                 "get_user_from_session")

\* mutant: the expired session is deleted in memory and never saved
ResolveSaveSessions_NoSave(p) ==
    /\ loc[p].pc = "resolve_save_sessions"
    /\ UNCHANGED <<users_file, sessions_file, now, next_token>>
    /\ Return(p, loc[p], "get_user_from_session", None)

\* auth.py 141-142: save_sessions(sessions); return None
ResolveSaveSessions(p) ==
    /\ loc[p].pc = "resolve_save_sessions"
    /\ sessions_file' = loc[p].sessions
    /\ UNCHANGED <<users_file, now, next_token>>
    /\ Return(p, loc[p], "get_user_from_session", None)

\* mutant: the counter returned is one use_repurpose behind the store
ResolveLoadUsers_StaleByOne(p) ==
    /\ loc[p].pc = "resolve_load_users"
    /\ UNCHANGED <<users_file, sessions_file, now, next_token>>
    /\ LET email == loc[p].email
       IN  Return(p, loc[p], "get_user_from_session",
                  IF email \notin DOMAIN users_file
                  THEN None
                  ELSE SessionUser(email,
                         [users_file[email] EXCEPT !.repurposes_used =
                              IF @ > 0 THEN @ - 1 ELSE @]))

\* auth.py 144-158: load the users, return the live user
ResolveLoadUsers(p) ==
    /\ loc[p].pc = "resolve_load_users"
    /\ UNCHANGED <<users_file, sessions_file, now, next_token>>
    /\ LET email == loc[p].email
       IN  Return(p, loc[p], "get_user_from_session",
                  IF email \notin DOMAIN users_file
                  THEN None
                  ELSE SessionUser(email, users_file[email]))

----------------------------------------------------------------------------
(* AuthSystem.use_repurpose *)

\* auth.py 165-172: the error use_repurpose() returns, "" when it goes on
use_repurpose_error(users, email) ==
    IF email \notin DOMAIN users THEN "User not found"
    ELSE IF LimitReached(users[email]) THEN "Repurpose limit reached. Please upgrade!"
    ELSE ""

\* auth.py 174: user["repurposes_used"] += 1
Increment(users, email) == [users EXCEPT ![email].repurposes_used = @ + 1]

\* mutant: the counter is incremented and saved before the limit is tested
UseLoad_CountsFirst(p, l) ==
    LET err == use_repurpose_error(users_file, l.email)
    IN  /\ UNCHANGED <<sessions_file, now, next_token>>
        /\ IF err = "User not found"
           THEN UNCHANGED users_file /\ Return(p, l, "use_repurpose", Fail(err))
           ELSE IF err # ""
           THEN /\ users_file' = Increment(users_file, l.email)
                /\ Return(p, l, "use_repurpose", Fail(err))
           ELSE /\ UNCHANGED users_file
                /\ Goto(p, [l EXCEPT !.pc = "use_save",
                                      !.users = Increment(users_file, l.email)],
                        "use_repurpose")

\* auth.py 163-174: load the users, check the limit, count in memory
UseLoad(p, l) ==
    LET err == use_repurpose_error(users_file, l.email)
    IN  /\ UNCHANGED <<users_file, sessions_file, now, next_token>>
        /\ IF err # ""
           THEN Return(p, l, "use_repurpose", Fail(err))
           ELSE Goto(p, [l EXCEPT !.pc = "use_save",
                                  !.users = Increment(users_file, l.email)],
                     "use_repurpose")

\* mutant: the save step loads the store again and tests the limit again
UseSave_Rechecks(p) ==
    /\ loc[p].pc = "use_save"
    /\ UNCHANGED <<sessions_file, now, next_token>>
    /\ LET email == loc[p].email
           err == use_repurpose_error(users_file, email)
       IN  IF err # ""
           THEN /\ UNCHANGED users_file
                /\ Return(p, loc[p], "use_repurpose", Fail(err))
           ELSE /\ users_file' = Increment(users_file, email)
                /\ Return(p, loc[p], "use_repurpose",
                          [success |-> TRUE,
                           repurposes_used |-> users_file'[email].repurposes_used,
                           repurposes_remaining |-> Remaining(users_file'[email])])

\* auth.py 175-181: save_users(users), return the counters
UseSave(p) ==
    /\ loc[p].pc = "use_save"
    /\ users_file' = loc[p].users
    /\ UNCHANGED <<sessions_file, now, next_token>>
    /\ LET user == loc[p].users[loc[p].email]
       IN  Return(p, loc[p], "use_repurpose",
                  [success |-> TRUE,
                   repurposes_used |-> user.repurposes_used,
                   repurposes_remaining |-> Remaining(user)])

----------------------------------------------------------------------------
(* AuthSystem.logout *)

\* mutant: an unknown token is an error
LogoutLoad_UnknownFails(p, l) ==
    /\ UNCHANGED <<users_file, sessions_file, now, next_token>>
    /\ IF l.token \in DOMAIN sessions_file
       THEN Goto(p, [l EXCEPT !.pc = "logout_save",
                              !.sessions = Del(sessions_file, l.token)],
                 "logout")
       ELSE Return(p, l, "logout", Fail("Unknown session"))

\* auth.py 186-189: load the sessions, delete the token in memory
LogoutLoad(p, l) ==
    /\ UNCHANGED <<users_file, sessions_file, now, next_token>>
    /\ IF l.token \in DOMAIN sessions_file
       THEN Goto(p, [l EXCEPT !.pc = "logout_save",
                              !.sessions = Del(sessions_file, l.token)],
                 "logout")
       ELSE Return(p, l, "logout", [success |-> TRUE])

\* auth.py 190-192: save_sessions(sessions)
LogoutSave(p) ==
    /\ loc[p].pc = "logout_save"
    /\ sessions_file' = loc[p].sessions
    /\ UNCHANGED <<users_file, now, next_token>>
    /\ Return(p, loc[p], "logout", [success |-> TRUE])

----------------------------------------------------------------------------
(* AuthSystem.upgrade_plan *)

\* auth.py 199-210: the error upgrade_plan() returns, "" when it goes on
upgrade_plan_error(users, email, plan) ==
    IF email \notin DOMAIN users THEN "User not found"
    ELSE IF plan \notin PlanIds THEN "Invalid plan"
    ELSE ""

\* mutant: the counter is not reset
ChangePlan_NoReset(users, email, plan) ==
    [users EXCEPT ![email].plan = plan,
                  ![email].repurposes_limit = limits(plan)]

\* mutant: the plan changes and the limit of the old plan stays
ChangePlan_PlanOnly(users, email, plan) ==
    [users EXCEPT ![email].plan = plan,
                  ![email].repurposes_used = 0]

\* auth.py 212-214: the plan, its limit, the counter reset
ChangePlan(users, email, plan) ==
    [users EXCEPT ![email].plan = plan,
                  ![email].repurposes_limit = limits(plan),
                  ![email].repurposes_used = 0]

\* auth.py 197-214: load the users, check, change the plan in memory
UpgradeLoad(p, l) ==
    LET err == upgrade_plan_error(users_file, l.email, l.plan)
    IN  /\ UNCHANGED <<users_file, sessions_file, now, next_token>>
        /\ IF err # ""
           THEN Return(p, l, "upgrade_plan", Fail(err))
           ELSE Goto(p, [l EXCEPT !.pc = "upgrade_save",
                                  !.users = ChangePlan(users_file, l.email, l.plan)],
                     "upgrade_plan")

\* auth.py 215-217: save_users(users)
UpgradeSave(p) ==
    /\ loc[p].pc = "upgrade_save"
    /\ users_file' = loc[p].users
    /\ UNCHANGED <<sessions_file, now, next_token>>
    /\ Return(p, loc[p], "upgrade_plan", [success |-> TRUE, plan |-> loc[p].plan])

----------------------------------------------------------------------------
(* StripePayments.handle_webhook *)

\* stripe_handler.py 88-112. w.verdict is what stripe.Webhook.construct_event
\* does with the payload, the signature header and the secret: it raises
\* ValueError, raises SignatureVerificationError, or returns the event ("ok").
handle_webhook(w) ==
    IF w.verdict = "ValueError" THEN Fail("Invalid payload")
    ELSE IF w.verdict = "SignatureVerificationError" THEN Fail("Invalid signature")
    ELSE IF w.type = "checkout.session.completed"
    THEN [success |-> TRUE, event |-> "subscription_created",
          customer_email |-> w.customer_email, plan_id |-> w.plan_id]
    ELSE IF w.type = "customer.subscription.deleted"
    THEN [success |-> TRUE, event |-> "subscription_cancelled"]
    ELSE [success |-> TRUE, event |-> w.type]

\* mutant: a completed checkout changes the plan of the purchaser
StripeWebhook_Activates(p, w) ==
    /\ loc[p].pc = "idle"
    /\ UNCHANGED <<sessions_file, now, next_token>>
    /\ LET l == [Idle EXCEPT !.handler = "stripe_webhook", !.webhook = w]
           r == handle_webhook(w)
       IN  /\ users_file' =
                 IF /\ r.success /\ r.event = "subscription_created"
                    /\ r.customer_email \in DOMAIN users_file
                    /\ r.plan_id \in PlanIds
                 THEN ChangePlan(users_file, r.customer_email, r.plan_id)
                 ELSE users_file
           /\ Respond(p, l, "handle_webhook", r,
                      IF r.success THEN Json(200, r, 0) ELSE Json(400, None, 0))

\* POST /api/webhook (main.py 229-245): handle_webhook, then 200 with its
\* result or 400; no store is opened
StripeWebhook(p, w) ==
    /\ loc[p].pc = "idle"
    /\ UNCHANGED <<users_file, sessions_file, now, next_token>>
    /\ LET l == [Idle EXCEPT !.handler = "stripe_webhook", !.webhook = w]
           r == handle_webhook(w)
       IN  Respond(p, l, "handle_webhook", r,
                   IF r.success THEN Json(200, r, 0) ELSE Json(400, None, 0))

----------------------------------------------------------------------------
(* Calls: a worker takes a request and runs the first step of its method *)

\* logins that have not drawn their token yet
PendingLogins ==
    Cardinality({q \in Procs : loc[q].pc \in
        {"login_load_users", "login_save_users", "login_load_sessions"}
        \/ (loc[q].pc = "register_save" /\ loc[q].handler = "api_register")})

TokensLeft == next_token + PendingLogins <= MaxTokens

Register(p, email, password, name) ==
    /\ loc[p].pc = "idle"
    /\ RegisterLoad(p, [Idle EXCEPT !.email = email, !.password = password,
                                    !.name = name])

Login(p, email, password) ==
    /\ loc[p].pc = "idle"
    /\ TokensLeft
    /\ LoginLoadUsers(p, [Idle EXCEPT !.email = email, !.password = password])

\* the login of api_register, after register() has returned (main.py 101)
LoginAfterRegister(p) ==
    /\ loc[p].pc = "login_load_users"
    /\ LoginLoadUsers(p, loc[p])

GetUserFromSession(p, token) ==
    /\ loc[p].pc = "idle"
    /\ ResolveLoadSessions(p, [Idle EXCEPT !.token = token])

UseRepurpose(p, email) ==
    /\ loc[p].pc = "idle"
    /\ UseLoad(p, [Idle EXCEPT !.email = email])

Logout(p, token) ==
    /\ loc[p].pc = "idle"
    /\ LogoutLoad(p, [Idle EXCEPT !.token = token])

UpgradePlan(p, email, plan) ==
    /\ loc[p].pc = "idle"
    /\ UpgradeLoad(p, [Idle EXCEPT !.email = email, !.plan = plan])

\* POST /api/register (main.py 89-113)
ApiRegister(p, email, password, name) ==
    /\ loc[p].pc = "idle"
    /\ TokensLeft
    /\ RegisterLoad(p, [Idle EXCEPT !.handler = "api_register", !.email = email,
                                    !.password = password, !.name = name])

\* POST /api/repurpose (main.py 159-169)
RepurposeContent(p, token, content) ==
    /\ loc[p].pc = "idle"
    /\ ResolveLoadSessions(p, [Idle EXCEPT !.handler = "repurpose_content",
                                           !.token = token, !.content = content])

\* main.py 192-206: the generation backend answers; on success the credit is used
RepurposeBackend(p, ok) ==
    /\ loc[p].pc = "repurpose_backend"
    /\ IF ~ok
       THEN /\ UNCHANGED <<users_file, sessions_file, now, next_token>>
            /\ Respond(p, loc[p], "repurpose", None, Json(500, None, 0))
       ELSE IF IsNone(loc[p].user)
       THEN /\ UNCHANGED <<users_file, sessions_file, now, next_token>>
            /\ Respond(p, loc[p], "repurpose", None,
                       Json(200, [success |-> TRUE], 0))
       ELSE UseLoad(p, [loc[p] EXCEPT !.email = loc[p].user.email])

\* the clock advances by d days
Tick(d) ==
    /\ now + d <= MaxTime
    /\ now' = now + d
    /\ ev' = NoEvent
    /\ UNCHANGED <<users_file, sessions_file, next_token, loc>>

----------------------------------------------------------------------------
(* Requests *)

EmailA == <<"a", "@", "b">>
\* EmailA in another letter case, with surrounding whitespace
EmailAVariant == <<" ", "A", "@", "B", " ">>
EmailC == <<"c", "@", "d">>
\* no "@"
EmailNoAt == <<"a", "b">>
\* empty once trimmed
EmailBlank == <<" ">>

PwGood == <<"s", "e", "c", "r", "e", "t">>
PwOther == <<"s", "e", "c", "r", "e", "t", "1">>
PwShort == <<"s", "e", "c", "r", "e">>

NameAna == <<"A", "n", "a">>

\* a token no login ever returned
BogusToken == MaxTokens + 1

\* the tokens a client can send: none, one a login has returned (a token
\* drawn by a login that has not returned yet is known to nobody), a made-up
\* one
ClientTokens ==
    {t \in 0..(next_token - 1) :
        \A q \in Procs : ~(loc[q].pc = "login_save_sessions" /\ loc[q].token = t)}
    \cup {BogusToken}

\* Stripe notifications: rejected ones, completed checkouts of a registered
\* and of an unregistered email, a cancellation, an event of another type
Webhooks ==
    {[NoWebhook EXCEPT !.verdict = "ValueError"],
     [NoWebhook EXCEPT !.verdict = "SignatureVerificationError"],
     [verdict |-> "ok", type |-> "customer.subscription.deleted",
      customer_email |-> EmailA, plan_id |-> ""],
     [verdict |-> "ok", type |-> "invoice.paid",
      customer_email |-> EmailA, plan_id |-> ""]}
    \cup {[verdict |-> "ok", type |-> "checkout.session.completed",
            customer_email |-> e, plan_id |-> pl] :
              e \in {EmailA, EmailC}, pl \in {"starter", "unlimited"}}

\* request bodies around the limits of main.py 179-189
Contents ==
    {[len |-> 0, stripped |-> 0], [len |-> 60, stripped |-> 49],
     [len |-> 50, stripped |-> 50], [len |-> 10000, stripped |-> 10000],
     [len |-> 10001, stripped |-> 10001]}

\* the counter of `email` is below the model's bound
BelowMaxUsed(email) ==
    email \in DOMAIN users_file => users_file[email].repurposes_used < MaxUsed

----------------------------------------------------------------------------
(* The state after ensure_data_dir(): two empty stores, idle workers *)

NoHist ==
    [after |-> "none", registered |-> <<>>, logged_in |-> <<>>, calls |-> 0,
     purged |-> {}, logged_out |-> {}, started |-> <<EmptyStore, EmptyStore>>,
     lost |-> {}]

Init ==
    /\ users_file = EmptyStore
    /\ sessions_file = EmptyStore
    /\ now = 0
    /\ next_token = 1
    /\ loc = [p \in Procs |-> Idle]
    /\ ev = NoEvent
    /\ hist = NoHist

----------------------------------------------------------------------------
(* History kept for the properties *)

\* the step that ev' describes is the first step of a call
IsCall == ev'.p # 0 /\ loc[ev'.p].pc = "idle"

\* ev is the return of a successful call of op
Succeeded(e, op) ==
    e.op = op /\ e.done /\ "success" \in DOMAIN e.ret /\ e.ret.success

\* ev is the return of a failed call of op
Failed(e, op) ==
    e.op = op /\ e.done /\ "success" \in DOMAIN e.ret /\ ~e.ret.success

\* When a call begins: which call returned successfully just before it
\* ("none": no call, a failed call, or the clock moved since), and for a
\* register its email and password, for a login its token and email.
\* When get_user_from_session saves the store without an expired token: the
\* token joins the purged ones.
KeepHist ==
    hist' = [hist EXCEPT
               !.after =
                   IF ~IsCall THEN @
                   ELSE IF ev.done /\ "success" \in DOMAIN ev.ret /\ ev.ret.success
                   THEN ev.op ELSE "none",
               !.registered =
                   IF ~IsCall THEN @
                   ELSE IF Succeeded(ev, "register")
                   THEN <<ev.arg.email, ev.arg.password>> ELSE <<>>,
               !.logged_in =
                   IF ~IsCall THEN @
                   ELSE IF Succeeded(ev, "login")
                   THEN <<ev.ret.session_token, ev.arg.email>> ELSE <<>>,
               !.purged =
                   IF ev'.p # 0 /\ loc[ev'.p].pc = "resolve_save_sessions"
                   THEN @ \cup {loc[ev'.p].token} ELSE @]

\* emails equal after lower-casing and trimming
SameEmail(a, b) == Lower(Strip(a)) = Lower(Strip(b))

----------------------------------------------------------------------------
(* The account ledger, one worker: the calls run one after the other *)

RegisterInputs ==
    {<<EmailA, PwGood, <<>> >>, <<EmailAVariant, PwGood, NameAna>>,
     <<EmailAVariant, PwOther, <<>> >>, <<EmailC, PwOther, NameAna>>,
     <<EmailA, PwShort, <<>> >>, <<EmailNoAt, PwGood, <<>> >>,
     <<EmailBlank, PwGood, <<>> >>}

LoginInputs ==
    {<<EmailA, PwGood>>, <<EmailAVariant, PwGood>>, <<EmailAVariant, PwOther>>,
     <<EmailC, PwGood>>, <<EmailNoAt, PwGood>>}

\* use_repurpose and upgrade_plan do not normalise: EmailAVariant is no key
LedgerEmails == {EmailA, EmailAVariant}

AccountsNext ==
    \/ /\ \E r \in RegisterInputs : Register(1, r[1], r[2], r[3])
       /\ KeepHist
    \/ RegisterSave(1) /\ KeepHist
    \/ /\ \E r \in LoginInputs : Login(1, r[1], r[2])
       /\ KeepHist
    \/ LoginSaveUsers(1) /\ KeepHist
    \/ LoginLoadSessions(1) /\ KeepHist
    \/ LoginSaveSessions(1) /\ KeepHist
    \/ /\ \E e \in LedgerEmails : BelowMaxUsed(e) /\ UseRepurpose(1, e)
       /\ KeepHist
    \/ UseSave(1) /\ KeepHist
    \/ /\ \E e \in LedgerEmails, pl \in PlanIds \cup {"enterprise"} :
              UpgradePlan(1, e, pl)
       /\ KeepHist
    \/ UpgradeSave(1) /\ KeepHist

SpecAccounts == Init /\ [][AccountsNext]_vars

----------------------------------------------------------------------------
(* Properties of the account ledger, checked under SpecAccounts *)

\* C4: a use_repurpose call that fails (unknown email, or a positive limit
\* already reached) returns without the save step and leaves the whole users
\* store as it was; and these are the only calls that fail.
C4_FailedConsumeLeavesStore ==
    [][(ev'.op = "use_repurpose" /\ ev'.done) =>
         LET e == ev'.arg.email
             refused == \/ e \notin DOMAIN users_file
                        \/ /\ users_file[e].repurposes_limit > 0
                           /\ users_file[e].repurposes_used
                                >= users_file[e].repurposes_limit
         IN  /\ Failed(ev', "use_repurpose") <=> refused
             /\ refused => /\ users_file' = users_file
                            /\ loc[ev'.p].pc # "use_save"]_vars

\* C4 happens: a call is refused at the limit of the free plan
C4_Witness ==
    /\ Failed(ev, "use_repurpose")
    /\ ev.arg.email \in DOMAIN users_file
    /\ users_file[ev.arg.email].repurposes_used = 5
    /\ users_file[ev.arg.email].repurposes_limit = 5

\* C7: register with an email containing "@", a password of 6 characters or
\* more and a normalised email absent from the store succeeds; the login that
\* follows it with the same password and an email equal to it up to letter
\* case and surrounding whitespace succeeds and returns a user with plan
\* free, repurposes_limit 5 and repurposes_used 0.
C7_RegisterThenLogin ==
    [][/\ (ev'.op = "register" /\ ev'.done
           /\ HasAt(ev'.arg.email) /\ Len(ev'.arg.password) >= 6
           /\ Lower(Strip(ev'.arg.email)) \notin DOMAIN users_file)
          => /\ Succeeded(ev', "register")
             /\ Lower(Strip(ev'.arg.email)) \in DOMAIN users_file'
       /\ (ev'.op = "login" /\ ev'.done /\ hist'.registered # <<>>
           /\ SameEmail(ev'.arg.email, hist'.registered[1])
           /\ ev'.arg.password = hist'.registered[2])
          => /\ Succeeded(ev', "login")
             /\ ev'.ret.user.email = Lower(Strip(hist'.registered[1]))
             /\ ev'.ret.user.plan = "free"
             /\ ev'.ret.user.repurposes_limit = 5
             /\ ev'.ret.user.repurposes_used = 0]_vars

\* C7 happens: registered as one spelling, logged in as another
C7_Witness ==
    /\ Succeeded(ev, "login")
    /\ hist.registered # <<>>
    /\ hist.registered[1] # ev.arg.email
    /\ SameEmail(hist.registered[1], ev.arg.email)

\* C8: a register call that follows a successful register of an email equal
\* to its own after lower-casing and trimming (both with passwords of valid
\* length) fails with "Email already registered" and leaves the users store,
\* the existing record included, as it was.
C8_DuplicateRegister ==
    [][(ev'.op = "register" /\ ev'.done /\ hist'.registered # <<>>
        /\ SameEmail(ev'.arg.email, hist'.registered[1])
        /\ Len(ev'.arg.password) >= 6)
       => /\ ev'.ret = Fail("Email already registered")
          /\ users_file' = users_file
          /\ Lower(Strip(ev'.arg.email)) \in DOMAIN users_file
          /\ users_file[Lower(Strip(ev'.arg.email))].password
               = hash_password(hist'.registered[2])]_vars

\* C8 happens: the second register spells the email differently and gives
\* another password
C8_Witness ==
    /\ Failed(ev, "register")
    /\ hist.registered # <<>>
    /\ hist.registered[1] # ev.arg.email
    /\ hist.registered[2] # ev.arg.password
    /\ Len(ev.arg.password) >= 6
    /\ SameEmail(hist.registered[1], ev.arg.email)

\* C10: upgrade_plan on an existing user with a plan of the catalog sets the
\* plan, sets repurposes_limit to the catalog value (5, 50, 200, -1) and
\* resets repurposes_used to 0, changing nothing else; with any other plan
\* it fails and leaves the users store as it was.
C10_ChangePlan ==
    [][(ev'.op = "upgrade_plan" /\ ev'.done /\ ev'.arg.email \in DOMAIN users_file) =>
         LET e == ev'.arg.email
             plan == ev'.arg.plan
             limit == CASE plan = "free" -> 5
                        [] plan = "starter" -> 50
                        [] plan = "pro" -> 200
                        [] plan = "unlimited" -> -1
                        [] OTHER -> 0
         IN  IF plan \in {"free", "starter", "pro", "unlimited"}
             THEN /\ Succeeded(ev', "upgrade_plan")
                  /\ ev'.ret.plan = plan
                  /\ users_file' = [users_file EXCEPT
                                       ![e].plan = plan,
                                       ![e].repurposes_limit = limit,
                                       ![e].repurposes_used = 0]
             ELSE /\ Failed(ev', "upgrade_plan")
                  /\ users_file' = users_file]_vars

\* C10 happens: a plan change right after a credit was used
C10_Witness ==
    /\ Succeeded(ev, "upgrade_plan")
    /\ hist.after = "use_repurpose"
    /\ ev.arg.plan = "starter"
    /\ users_file[ev.arg.email].repurposes_used = 0
    /\ users_file[ev.arg.email].repurposes_limit = 50

\* C13: a login whose email is unknown and a login whose email is known but
\* whose password is wrong return the same value, success False with the
\* error "Invalid email or password", at their first step: neither the users
\* store (last_login included) nor the sessions store changes, and no save
\* is pending. A login fails in no other way.
C13_SameLoginFailure ==
    [][(ev'.op = "login" /\ ev'.done) =>
         LET key == Lower(Strip(ev'.arg.email))
             unknown == key \notin DOMAIN users_file
             wrong == /\ key \in DOMAIN users_file
                      /\ users_file[key].password # hash_password(ev'.arg.password)
         IN  /\ Failed(ev', "login") <=> (unknown \/ wrong)
             /\ (unknown \/ wrong)
                   => /\ ev'.ret = [success |-> FALSE,
                                    error |-> "Invalid email or password"]
                      /\ users_file' = users_file
                      /\ sessions_file' = sessions_file
                      /\ loc'[ev'.p].pc = "idle"]_vars

\* C13 happens: a wrong password for a user who has logged in before
C13_Witness ==
    /\ Failed(ev, "login")
    /\ Lower(Strip(ev.arg.email)) \in DOMAIN users_file
    /\ users_file[Lower(Strip(ev.arg.email))].last_login # <<>>
    /\ sessions_file # EmptyStore

----------------------------------------------------------------------------
(* The quota of one account: use_repurpose called again and again *)

\* use_repurpose is called at most MaxCalls times in a row
MaxCalls == 1001

\* hist.calls: how many use_repurpose calls have returned in a row, with no
\* other call in between, since the counter of EmailA was 0 (-1: not counting)
CountCalls ==
    hist' = [hist EXCEPT !.calls =
                IF ev'.op = "use_repurpose"
                THEN (IF ev'.done /\ @ >= 0 THEN @ + 1 ELSE @)
                ELSE IF EmailA \in DOMAIN users_file'
                        /\ users_file'[EmailA].repurposes_used = 0
                THEN 0 ELSE -1]

QuotaNext ==
    \/ Register(1, EmailA, PwGood, <<>>) /\ CountCalls
    \/ RegisterSave(1) /\ CountCalls
    \/ /\ \E pl \in PlanIds : UpgradePlan(1, EmailA, pl)
       /\ CountCalls
    \/ UpgradeSave(1) /\ CountCalls
    \/ /\ hist.calls < MaxCalls
       /\ EmailA \in DOMAIN users_file => users_file[EmailA].repurposes_used < MaxCalls
       /\ UseRepurpose(1, EmailA)
       /\ CountCalls
    \/ UseSave(1) /\ CountCalls

SpecQuota == Init /\ [][QuotaNext]_vars

\* C1: for a user with a positive limit N, of use_repurpose calls made in a
\* row from a counter of 0, the first N succeed (the k-th leaves the counter
\* at k) and call N+1, like every later one, returns the limit failure with
\* the counter at N; the counter never exceeds N.
C1_ExactlyNCredits ==
    EmailA \in DOMAIN users_file =>
        LET user == users_file[EmailA]
            N == user.repurposes_limit
        IN  N > 0 =>
              /\ user.repurposes_used <= N
              /\ (ev.op = "use_repurpose" /\ ev.done /\ hist.calls >= 1) =>
                    IF hist.calls <= N
                    THEN /\ Succeeded(ev, "use_repurpose")
                         /\ ev.ret.repurposes_used = hist.calls
                         /\ user.repurposes_used = hist.calls
                    ELSE /\ ev.ret = Fail("Repurpose limit reached. Please upgrade!")
                         /\ user.repurposes_used = N

\* C1 happens: call 201 on the pro plan is refused
C1_Witness ==
    /\ EmailA \in DOMAIN users_file
    /\ users_file[EmailA].repurposes_limit = 200
    /\ hist.calls = 201
    /\ Failed(ev, "use_repurpose")

\* C9: while the plan of a user is "unlimited", every use_repurpose call
\* succeeds and counts, however many were made before: -1 is no cap.
C9_UnlimitedNeverFails ==
    (/\ EmailA \in DOMAIN users_file
     /\ users_file[EmailA].plan = "unlimited"
     /\ ev.op = "use_repurpose" /\ ev.done)
    => /\ Succeeded(ev, "use_repurpose")
       /\ users_file[EmailA].repurposes_limit = -1
       /\ ev.ret.repurposes_remaining = 999
       /\ hist.calls >= 1 => users_file[EmailA].repurposes_used = hist.calls

\* C9 happens: the 1000th call in a row on the unlimited plan
C9_Witness ==
    /\ EmailA \in DOMAIN users_file
    /\ users_file[EmailA].plan = "unlimited"
    /\ hist.calls = 1000
    /\ Succeeded(ev, "use_repurpose")

----------------------------------------------------------------------------
(* The session store, one worker: the calls run one after the other and the *)
(* clock moves between them                                                 *)

SessionNext ==
    \/ Register(1, EmailA, PwGood, <<>>) /\ KeepHist
    \/ RegisterSave(1) /\ KeepHist
    \/ /\ \E e \in {EmailA, EmailAVariant}, pw \in {PwGood, PwOther} : Login(1, e, pw)
       /\ KeepHist
    \/ LoginSaveUsers(1) /\ KeepHist
    \/ LoginLoadSessions(1) /\ KeepHist
    \/ LoginSaveSessions(1) /\ KeepHist
    \/ /\ \E t \in ClientTokens : GetUserFromSession(1, t)
       /\ KeepHist
    \/ ResolveSaveSessions(1) /\ KeepHist
    \/ ResolveLoadUsers(1) /\ KeepHist
    \/ /\ \E t \in ClientTokens : Logout(1, t)
       /\ KeepHist
    \/ LogoutSave(1) /\ KeepHist
    \/ /\ loc[1].pc = "idle"
       /\ \E d \in {1, SessionTTL} : Tick(d)
       /\ UNCHANGED hist

SpecSession == Init /\ [][SessionNext]_vars

\* C5: get_user_from_session returns the owning user if and only if the token
\* is in the sessions store and the time is strictly before expires_at; a
\* token in the store at or after expires_at is deleted and None is returned.
C5_ResolveIffBeforeExpiry ==
    [][(ev'.op = "get_user_from_session" /\ ev'.done) =>
         LET t == ev'.arg.token
             live == t \in DOMAIN sessions_file /\ now < sessions_file[t].expires_at
         IN  /\ ~IsNone(ev'.ret) <=> live
             /\ live => ev'.ret.email = sessions_file[t].email
             /\ (t \in DOMAIN sessions_file /\ ~live)
                   => t \notin DOMAIN sessions_file']_vars

\* C6: a session is stored with expires_at = created_at + 7 days; the
\* get_user_from_session that follows a successful login, with its token,
\* returns the email that logged in; a get_user_from_session of a stored
\* token after expires_at returns None and saves the store without the
\* token; a token purged this way is never in the store again.
C6_SessionLifetime ==
    [][/\ \A t \in DOMAIN sessions_file' :
             sessions_file'[t].expires_at = sessions_file'[t].created_at + 7
       /\ (ev'.op = "get_user_from_session" /\ ev'.done
           /\ hist'.logged_in # <<>> /\ ev'.arg.token = hist'.logged_in[1])
          => /\ ~IsNone(ev'.ret)
             /\ ev'.ret.email = Lower(Strip(hist'.logged_in[2]))
       /\ (ev'.op = "get_user_from_session" /\ ev'.done
           /\ ev'.arg.token \in DOMAIN sessions_file
           /\ sessions_file[ev'.arg.token].expires_at < now)
          => /\ IsNone(ev'.ret)
             /\ ev'.arg.token \notin DOMAIN sessions_file'
             /\ ev'.arg.token \in hist'.purged
       /\ hist'.purged \cap DOMAIN sessions_file' = {}]_vars

\* C6 happens: a token was purged on expiry, and a later login has stored
\* another session since
C6_Witness ==
    /\ hist.purged # {}
    /\ sessions_file # EmptyStore
    /\ Succeeded(ev, "login")

----------------------------------------------------------------------------
(* The account ledger, two workers: the calls interleave at every load and  *)
(* save of the users store                                                   *)

LedgerNext ==
    \/ /\ \E p \in Procs : Register(p, EmailA, PwGood, <<>>)
       /\ UNCHANGED hist
    \/ /\ \E p \in Procs : RegisterSave(p)
       /\ UNCHANGED hist
    \/ /\ \E p \in Procs : Login(p, EmailA, PwGood)
       /\ UNCHANGED hist
    \/ /\ \E p \in Procs : LoginSaveUsers(p)
       /\ UNCHANGED hist
    \/ /\ \E p \in Procs : LoginLoadSessions(p)
       /\ UNCHANGED hist
    \/ /\ \E p \in Procs : LoginSaveSessions(p)
       /\ UNCHANGED hist
    \/ /\ \E p \in Procs : BelowMaxUsed(EmailA) /\ UseRepurpose(p, EmailA)
       /\ UNCHANGED hist
    \/ /\ \E p \in Procs : UseSave(p)
       /\ UNCHANGED hist
    \/ /\ \E p \in Procs, pl \in PlanIds : UpgradePlan(p, EmailA, pl)
       /\ UNCHANGED hist
    \/ /\ \E p \in Procs : UpgradeSave(p)
       /\ UNCHANGED hist

SpecLedger == Init /\ [][LedgerNext]_vars

\* C2: in every state of the users store, under every interleaving of
\* register, login, use_repurpose and upgrade_plan, a record with a positive
\* repurposes_limit has repurposes_used <= repurposes_limit.
C2_UsedWithinLimit ==
    \A e \in DOMAIN users_file :
        users_file[e].repurposes_limit > 0
            => users_file[e].repurposes_used <= users_file[e].repurposes_limit

\* C2 happens: a counter at its limit, saved by a worker while the other
\* worker is between its load and its save
C2_Witness ==
    /\ EmailA \in DOMAIN users_file
    /\ users_file[EmailA].repurposes_used = users_file[EmailA].repurposes_limit
    /\ ev.op = "use_repurpose" /\ ev.done
    /\ \E q \in Procs : q # ev.p /\ loc[q].pc \in {"use_save", "upgrade_save",
                                                   "login_save_users"}

\* C20: in every state of the users store, under every interleaving, each
\* record has repurposes_used >= 0 and the repurposes_limit of its plan in
\* the catalog (free 5, starter 50, pro 200, unlimited -1); no limit is 0,
\* so a limit is positive exactly when the plan is not "unlimited".
C20_LimitMatchesPlan ==
    \A e \in DOMAIN users_file :
        LET user == users_file[e]
        IN  /\ user.repurposes_used >= 0
            /\ user.plan \in {"free", "starter", "pro", "unlimited"}
            /\ user.plan = "free" => user.repurposes_limit = 5
            /\ user.plan = "starter" => user.repurposes_limit = 50
            /\ user.plan = "pro" => user.repurposes_limit = 200
            /\ user.plan = "unlimited" => user.repurposes_limit = -1
            /\ user.repurposes_limit # 0
            /\ user.repurposes_limit > 0 <=> user.plan # "unlimited"

\* C20 happens: the unlimited plan has just been stored while the other
\* worker is about to save the record it loaded under the pro plan
C20_Witness ==
    /\ Succeeded(ev, "upgrade_plan")
    /\ users_file[EmailA].plan = "unlimited"
    /\ users_file[EmailA].repurposes_limit = -1
    /\ \E q \in Procs :
          /\ q # ev.p
          /\ loc[q].pc = "use_save"
          /\ loc[q].users[EmailA].plan = "pro"
          /\ loc[q].users[EmailA].repurposes_limit = 200

----------------------------------------------------------------------------
(* POST /api/repurpose, two workers: the requests of one account interleave. *)
(* The clock stands still, so no session expires.                            *)

\* the token resolves to no user whose counter has reached the model's bound
TokenBelowMaxUsed(t) ==
    t \in DOMAIN sessions_file => BelowMaxUsed(sessions_file[t].email)

RepurposeNext ==
    \/ /\ \E p \in Procs : Register(p, EmailA, PwGood, <<>>)
       /\ UNCHANGED hist
    \/ /\ \E p \in Procs : RegisterSave(p)
       /\ UNCHANGED hist
    \/ /\ \E p \in Procs : Login(p, EmailA, PwGood)
       /\ UNCHANGED hist
    \/ /\ \E p \in Procs : LoginSaveUsers(p)
       /\ UNCHANGED hist
    \/ /\ \E p \in Procs : LoginLoadSessions(p)
       /\ UNCHANGED hist
    \/ /\ \E p \in Procs : LoginSaveSessions(p)
       /\ UNCHANGED hist
    \/ /\ \E p \in Procs, t \in ClientTokens, c \in Contents :
              TokenBelowMaxUsed(t) /\ RepurposeContent(p, t, c)
       /\ UNCHANGED hist
    \/ /\ \E p \in Procs : ResolveLoadUsers(p)
       /\ UNCHANGED hist
    \/ /\ \E p \in Procs, ok \in BOOLEAN : RepurposeBackend(p, ok)
       /\ UNCHANGED hist
    \/ /\ \E p \in Procs : UseSave(p)
       /\ UNCHANGED hist

SpecRepurpose == Init /\ [][RepurposeNext]_vars

\* C3: an authenticated POST /api/repurpose that answers 200 has used one
\* credit: its use_repurpose call succeeded, so the counter it loaded was
\* saved incremented by one.
C3_GrantedCountsOnce ==
    (/\ ev.handler = "repurpose_content"
     /\ ev.op = "use_repurpose"
     /\ ev.resp.status = 200)
    => Succeeded(ev, "use_repurpose")

----------------------------------------------------------------------------
(* Several sessions, one worker: two users log in and out, and between two  *)
(* calls the clock may move past the lifetime of the sessions in the store  *)

\* hist.logged_out: the tokens of the logout calls that returned before the
\* call now running began
KeepLogout ==
    hist' = [hist EXCEPT !.logged_out =
                IF IsCall /\ Succeeded(ev, "logout")
                THEN @ \cup {ev.arg.token} ELSE @]

LogoutNext ==
    \/ /\ \E e \in {EmailA, EmailC} : Register(1, e, PwGood, <<>>)
       /\ KeepLogout
    \/ RegisterSave(1) /\ KeepLogout
    \/ /\ \E e \in {EmailA, EmailC} : Login(1, e, PwGood)
       /\ KeepLogout
    \/ LoginSaveUsers(1) /\ KeepLogout
    \/ LoginLoadSessions(1) /\ KeepLogout
    \/ LoginSaveSessions(1) /\ KeepLogout
    \/ /\ \E t \in ClientTokens : Logout(1, t)
       /\ KeepLogout
    \/ LogoutSave(1) /\ KeepLogout
    \/ /\ \E t \in ClientTokens : GetUserFromSession(1, t)
       /\ KeepLogout
    \/ ResolveSaveSessions(1) /\ KeepLogout
    \/ ResolveLoadUsers(1) /\ KeepLogout
    \/ /\ loc[1].pc = "idle"
       /\ Tick(SessionTTL + 1)
       /\ UNCHANGED hist

SpecLogout == Init /\ [][LogoutNext]_vars

\* C11: logout returns success whether the token is in the sessions store or
\* not, and when it is called again with a token already logged out; after it
\* the store is the store before it without the token (so a second call
\* leaves the store as the first one left it) and the token is absent.
C11_LogoutIdempotent ==
    [][(ev'.op = "logout" /\ ev'.done) =>
         LET t == ev'.arg.token
         IN  /\ ev'.ret = [success |-> TRUE]
             /\ t \notin DOMAIN sessions_file'
             /\ sessions_file' = [x \in DOMAIN sessions_file \ {t} |-> sessions_file[x]]
             /\ t \in hist'.logged_out => sessions_file' = sessions_file
             /\ users_file' = users_file]_vars

\* C11 happens: a second logout with a token a login had issued, while
\* another session is in the store
C11_Witness ==
    /\ Succeeded(ev, "logout")
    /\ ev.arg.token \in hist.logged_out
    /\ ev.arg.token \in 1..(next_token - 1)
    /\ sessions_file # EmptyStore

\* C12: a login leaves every session already in the store as it was, a
\* logout leaves every session but its own token's as it was, and
\* get_user_from_session of a token in the store, before its expires_at,
\* returns the user the session belongs to: sessions of one user and of
\* several users coexist.
C12_SeveralSessions ==
    [][/\ ev'.op = "login" =>
             \A t \in DOMAIN sessions_file :
                 t \in DOMAIN sessions_file' /\ sessions_file'[t] = sessions_file[t]
       /\ ev'.op = "logout" =>
             \A t \in DOMAIN sessions_file \ {ev'.arg.token} :
                 t \in DOMAIN sessions_file' /\ sessions_file'[t] = sessions_file[t]
       /\ (ev'.op = "get_user_from_session" /\ ev'.done
           /\ ev'.arg.token \in DOMAIN sessions_file
           /\ now < sessions_file[ev'.arg.token].expires_at)
          => /\ ~IsNone(ev'.ret)
             /\ ev'.ret.email = sessions_file[ev'.arg.token].email]_vars

\* C12 happens: two sessions of one user were in the store, one was logged
\* out, and the other one resolves
C12_Witness ==
    /\ ev.op = "get_user_from_session" /\ ev.done /\ ~IsNone(ev.ret)
    /\ \E t \in hist.logged_out :
          /\ t \in 1..(next_token - 1)
          /\ t # ev.arg.token
    /\ users_file[ev.ret.email].last_login # <<>>
    /\ DOMAIN users_file = {EmailA}

----------------------------------------------------------------------------
(* POST /api/register, two workers: registrations of two emails interleave  *)
(* with each other and with upgrade_plan calls, at every load and save of a *)
(* store                                                                     *)

RegisterNext ==
    \/ /\ \E p \in Procs, e \in {EmailA, EmailC} : ApiRegister(p, e, PwGood, <<>>)
       /\ UNCHANGED hist
    \/ /\ \E p \in Procs : RegisterSave(p)
       /\ UNCHANGED hist
    \/ /\ \E p \in Procs : LoginAfterRegister(p)
       /\ UNCHANGED hist
    \/ /\ \E p \in Procs : LoginSaveUsers(p)
       /\ UNCHANGED hist
    \/ /\ \E p \in Procs : LoginLoadSessions(p)
       /\ UNCHANGED hist
    \/ /\ \E p \in Procs : LoginSaveSessions(p)
       /\ UNCHANGED hist
    \/ /\ \E p \in Procs, e \in {EmailA, EmailC} : UpgradePlan(p, e, "starter")
       /\ UNCHANGED hist
    \/ /\ \E p \in Procs : UpgradeSave(p)
       /\ UNCHANGED hist

SpecRegister == Init /\ [][RegisterNext]_vars

\* C14: a POST /api/register whose register() succeeded answers with a
\* session_token cookie; the token is in the sessions store and its session
\* belongs to the email just registered.
C14_RegisterEstablishesSession ==
    (ev.handler = "api_register" /\ ev.op = "login" /\ ev.done)
    => /\ ev.resp.cookie # 0
       /\ ev.resp.cookie \in DOMAIN sessions_file
       /\ sessions_file[ev.resp.cookie].email = Lower(Strip(ev.arg.email))

\* C19: no step removes a key from the users store: the email of a register
\* call that returned success (the only way a key enters the store) is a key
\* of the store in every later state.
C19_UserNeverDeleted ==
    [][DOMAIN users_file \subseteq DOMAIN users_file']_vars

----------------------------------------------------------------------------
(* One account and its sessions, one worker: credits are used and the plan  *)
(* changed between the logins and the get_user_from_session calls           *)

\* hist.calls: the use_repurpose calls that succeeded since the last
\* successful upgrade_plan (since the registration, when there was none);
\* hist.logged_in: the token of the last successful login and the
\* repurposes_used that login returned
CountCredits ==
    hist' = [hist EXCEPT
               !.calls = IF Succeeded(ev', "use_repurpose") THEN @ + 1
                         ELSE IF Succeeded(ev', "upgrade_plan") THEN 0
                         ELSE @,
               !.logged_in = IF Succeeded(ev', "login")
                             THEN <<ev'.ret.session_token,
                                    ev'.ret.user.repurposes_used>>
                             ELSE @]

ResolveNext ==
    \/ Register(1, EmailA, PwGood, <<>>) /\ CountCredits
    \/ RegisterSave(1) /\ CountCredits
    \/ Login(1, EmailAVariant, PwGood) /\ CountCredits
    \/ LoginSaveUsers(1) /\ CountCredits
    \/ LoginLoadSessions(1) /\ CountCredits
    \/ LoginSaveSessions(1) /\ CountCredits
    \/ /\ BelowMaxUsed(EmailA)
       /\ UseRepurpose(1, EmailA)
       /\ CountCredits
    \/ UseSave(1) /\ CountCredits
    \/ /\ \E pl \in PlanIds : UpgradePlan(1, EmailA, pl)
       /\ CountCredits
    \/ UpgradeSave(1) /\ CountCredits
    \/ /\ \E t \in ClientTokens : GetUserFromSession(1, t)
       /\ CountCredits
    \/ ResolveLoadUsers(1) /\ CountCredits
    \/ /\ \E w \in Webhooks : StripeWebhook(1, w)
       /\ CountCredits

SpecResolve == Init /\ [][ResolveNext]_vars

\* C15: the user get_user_from_session returns carries the values of the
\* users store as it is now: repurposes_used is the number of use_repurpose
\* calls that succeeded since the last plan change, plan and limit are the
\* stored ones, and repurposes_remaining is limit - used, never negative,
\* when the limit is positive and 999 when the limit is -1.
C15_ResolveReadsLive ==
    (ev.op = "get_user_from_session" /\ ev.done /\ ~IsNone(ev.ret)) =>
        LET user == users_file[ev.ret.email]
        IN  /\ ev.ret.repurposes_used = hist.calls
            /\ ev.ret.repurposes_used = user.repurposes_used
            /\ ev.ret.repurposes_limit = user.repurposes_limit
            /\ ev.ret.plan = user.plan
            /\ ev.ret.repurposes_limit > 0
                  => /\ ev.ret.repurposes_remaining
                          = ev.ret.repurposes_limit - ev.ret.repurposes_used
                     /\ ev.ret.repurposes_remaining >= 0
            /\ ev.ret.repurposes_limit = -1
                  => ev.ret.repurposes_remaining = 999
            /\ ev.ret.repurposes_limit \in {5, 50, 200, -1}

\* C15 happens: the session of a login that returned a counter of 0 reports
\* the 5 credits used since, with none remaining
C15_Witness ==
    /\ ev.op = "get_user_from_session" /\ ev.done /\ ~IsNone(ev.ret)
    /\ hist.logged_in = <<ev.arg.token, 0>>
    /\ ev.ret.repurposes_used = 5
    /\ ev.ret.repurposes_remaining = 0

\* C16: a POST /api/webhook changes neither store, whatever the event. A
\* payload that fails parsing or the signature check is rejected with a
\* failure (400); a verified "checkout.session.completed" reports
\* "subscription_created" with the purchaser's email and the plan id of the
\* checkout; a verified event of a type that is not handled returns success
\* with that type.
C16_WebhookNoEffect ==
    [][ev'.op = "handle_webhook" =>
         LET w == ev'.arg.webhook
         IN  /\ users_file' = users_file
             /\ sessions_file' = sessions_file
             /\ w.verdict # "ok"
                   => Failed(ev', "handle_webhook") /\ ev'.resp.status = 400
             /\ w.verdict = "ok"
                   => Succeeded(ev', "handle_webhook") /\ ev'.resp.status = 200
             /\ (w.verdict = "ok" /\ w.type = "checkout.session.completed")
                   => /\ ev'.ret.event = "subscription_created"
                      /\ ev'.ret.customer_email = w.customer_email
                      /\ ev'.ret.plan_id = w.plan_id
             /\ (w.verdict = "ok" /\ w.type = "invoice.paid")
                   => ev'.ret = [success |-> TRUE, event |-> "invoice.paid"]]_vars

\* C16 happens: the checkout of the unlimited plan is reported for a user
\* who is still on the free plan with credits used
C16_Witness ==
    /\ Succeeded(ev, "handle_webhook")
    /\ ev.ret.event = "subscription_created"
    /\ ev.ret.plan_id = "unlimited"
    /\ ev.ret.customer_email \in DOMAIN users_file
    /\ users_file[ev.ret.customer_email].plan = "free"
    /\ users_file[ev.ret.customer_email].repurposes_limit = 5
    /\ users_file[ev.ret.customer_email].repurposes_used = 3

----------------------------------------------------------------------------
(* The quota of one account, two workers: use_repurpose calls interleave at *)
(* the load and the save of the users store                                 *)

\* hist.calls: the use_repurpose calls that have returned success;
\* hist.lost: the counters at which a call returned success and left the
\* stored counter where it was
CountGrants ==
    hist' = [hist EXCEPT
               !.calls = IF Succeeded(ev', "use_repurpose") THEN @ + 1 ELSE @,
               !.lost = IF /\ Succeeded(ev', "use_repurpose")
                           /\ users_file'[EmailA].repurposes_used
                                = users_file[EmailA].repurposes_used
                        THEN @ \cup {users_file[EmailA].repurposes_used} ELSE @]

RaceNext ==
    \/ /\ \E p \in Procs : Register(p, EmailA, PwGood, <<>>)
       /\ CountGrants
    \/ /\ \E p \in Procs : RegisterSave(p)
       /\ CountGrants
    \/ /\ \E p \in Procs : BelowMaxUsed(EmailA) /\ UseRepurpose(p, EmailA)
       /\ CountGrants
    \/ /\ \E p \in Procs : UseSave(p)
       /\ CountGrants

SpecRace == Init /\ [][RaceNext]_vars

\* C17: two use_repurpose calls for one account that loaded the same store
\* and are both between their load and their save have both passed the limit
\* test. The one that saves first returns success and stores the counter
\* the other one is about to store; the one that saves second returns
\* success too and leaves the counter where the first one put it: two
\* credits granted, the counter one higher. From used = N - 1 the counter
\* ends at N = limit with one credit granted beyond the quota.
C17_ConcurrentConsumeRace ==
    [][\A p \in Procs :
          (loc[p].pc = "use_save" /\ ev'.p = p) =>
             LET e == loc[p].email
                 mine == loc[p].users[e].repurposes_used
             IN  /\ \A q \in Procs \ {p} :
                       (loc[q].pc = "use_save" /\ loc[q].users = loc[p].users)
                         => /\ users_file[e].repurposes_used
                                 < users_file[e].repurposes_limit
                            /\ Succeeded(ev', "use_repurpose")
                            /\ users_file'[e].repurposes_used
                                 = loc[q].users[e].repurposes_used
                 /\ (e \in DOMAIN users_file
                     /\ users_file[e].repurposes_used = mine)
                       => /\ Succeeded(ev', "use_repurpose")
                          /\ ev'.ret.repurposes_used = mine
                          /\ users_file'[e].repurposes_used
                               = users_file[e].repurposes_used
                          /\ hist'.calls = hist.calls + 1]_vars

\* C17 happens: limit 5, both calls loaded 4; the second one has returned
\* success, the sixth credit granted, and the counter is 5
C17_Witness ==
    /\ Succeeded(ev, "use_repurpose")
    /\ ev.ret.repurposes_used = 5
    /\ hist.calls = 6
    /\ hist.lost = {5}
    /\ users_file[EmailA].repurposes_limit = 5
    /\ users_file[EmailA].repurposes_used = 5

----------------------------------------------------------------------------
(* POST /api/repurpose, one worker: the requests run one after the other,   *)
(* and between two of them the clock may move past the lifetime of the      *)
(* sessions in the store                                                     *)

\* hist.started: the two stores as they were when the request now running,
\* or the last one, began
KeepStart ==
    hist' = [hist EXCEPT !.started =
                IF IsCall THEN <<users_file, sessions_file>> ELSE @]

RequestNext ==
    \/ Register(1, EmailA, PwGood, <<>>) /\ KeepStart
    \/ RegisterSave(1) /\ KeepStart
    \/ Login(1, EmailA, PwGood) /\ KeepStart
    \/ LoginSaveUsers(1) /\ KeepStart
    \/ LoginLoadSessions(1) /\ KeepStart
    \/ LoginSaveSessions(1) /\ KeepStart
    \/ /\ \E t \in ClientTokens, c \in Contents :
              TokenBelowMaxUsed(t) /\ RepurposeContent(1, t, c)
       /\ KeepStart
    \/ ResolveSaveSessions(1) /\ KeepStart
    \/ ResolveLoadUsers(1) /\ KeepStart
    \/ /\ \E ok \in BOOLEAN : RepurposeBackend(1, ok)
       /\ KeepStart
    \/ UseSave(1) /\ KeepStart
    \/ /\ loc[1].pc = "idle"
       /\ Tick(SessionTTL + 1)
       /\ UNCHANGED hist

SpecRequest == Init /\ [][RequestNext]_vars

\* C18: a POST /api/repurpose that answers 400, 403 or 500 leaves the users
\* store and the sessions store as they were when the request began.
C18_NoMutationBeforeSuccess ==
    (ev.handler = "repurpose_content" /\ ev.resp.status \in {400, 403, 500})
    => <<users_file, sessions_file>> = hist.started

----------------------------------------------------------------------------
(* The counter of one account, two workers, no plan change: register, login *)
(* and use_repurpose interleave at every load and save of the users store   *)

ConsumeNext ==
    \/ /\ \E p \in Procs : Register(p, EmailA, PwGood, <<>>)
       /\ UNCHANGED hist
    \/ /\ \E p \in Procs : RegisterSave(p)
       /\ UNCHANGED hist
    \/ /\ \E p \in Procs : Login(p, EmailA, PwGood)
       /\ UNCHANGED hist
    \/ /\ \E p \in Procs : LoginSaveUsers(p)
       /\ UNCHANGED hist
    \/ /\ \E p \in Procs : LoginLoadSessions(p)
       /\ UNCHANGED hist
    \/ /\ \E p \in Procs : LoginSaveSessions(p)
       /\ UNCHANGED hist
    \/ /\ \E p \in Procs : BelowMaxUsed(EmailA) /\ UseRepurpose(p, EmailA)
       /\ UNCHANGED hist
    \/ /\ \E p \in Procs : UseSave(p)
       /\ UNCHANGED hist

SpecConsume == Init /\ [][ConsumeNext]_vars

\* C21: while no upgrade_plan is called, no step lowers the stored
\* repurposes_used of a user: a credit counted by use_repurpose stays
\* counted, whatever login, register and use_repurpose calls run beside it.
C21_ConsumeNeverLost ==
    [][\A e \in DOMAIN users_file \cap DOMAIN users_file' :
          users_file'[e].repurposes_used >= users_file[e].repurposes_used]_vars

----------------------------------------------------------------------------
(* The sessions of one account, two workers: login, logout and              *)
(* get_user_from_session interleave at every load and save of the sessions  *)
(* store; the clock may move past the lifetime of the sessions in the store *)

\* hist.logged_out: the tokens of the logout calls that have returned;
\* hist.purged: the tokens get_user_from_session has saved the store without
KeepDestroyed ==
    hist' = [hist EXCEPT
               !.logged_out = IF Succeeded(ev', "logout")
                              THEN @ \cup {ev'.arg.token} ELSE @,
               !.purged = IF ev'.p # 0 /\ loc[ev'.p].pc = "resolve_save_sessions"
                          THEN @ \cup {ev'.arg.token} ELSE @]

DestroyNext ==
    \/ /\ \E p \in Procs : Register(p, EmailA, PwGood, <<>>)
       /\ KeepDestroyed
    \/ /\ \E p \in Procs : RegisterSave(p)
       /\ KeepDestroyed
    \/ /\ \E p \in Procs : Login(p, EmailA, PwGood)
       /\ KeepDestroyed
    \/ /\ \E p \in Procs : LoginSaveUsers(p)
       /\ KeepDestroyed
    \/ /\ \E p \in Procs : LoginLoadSessions(p)
       /\ KeepDestroyed
    \/ /\ \E p \in Procs : LoginSaveSessions(p)
       /\ KeepDestroyed
    \/ /\ \E p \in Procs, t \in ClientTokens : Logout(p, t)
       /\ KeepDestroyed
    \/ /\ \E p \in Procs : LogoutSave(p)
       /\ KeepDestroyed
    \/ /\ \E p \in Procs, t \in ClientTokens : GetUserFromSession(p, t)
       /\ KeepDestroyed
    \/ /\ \E p \in Procs : ResolveSaveSessions(p)
       /\ KeepDestroyed
    \/ /\ \E p \in Procs : ResolveLoadUsers(p)
       /\ KeepDestroyed
    \/ /\ Tick(SessionTTL + 1)
       /\ UNCHANGED hist

SpecDestroy == Init /\ [][DestroyNext]_vars

\* C22: a token whose logout has returned, or that get_user_from_session
\* has purged as expired, is never in the sessions store again, and a
\* get_user_from_session of it that begins afterwards returns None at its
\* first step (it does not find the token in the store).
C22_DestroyedStaysDestroyed ==
    [][/\ (hist'.logged_out \cup hist'.purged) \cap DOMAIN sessions_file' = {}
       /\ (IsCall /\ ev'.op = "get_user_from_session"
           /\ ev'.arg.token \in hist.logged_out \cup hist.purged)
          => (ev'.done /\ IsNone(ev'.ret))]_vars

====
